---- MODULE Spec2Model ----
(***************************************************************************)
(* Model of the ZeroTier API client (src/unnamed/part_000): credential     *)
(* resolution, the axios helpers, the flattening layer, the network and    *)
(* member facades and the two detail aggregators.                          *)
(*                                                                         *)
(* JavaScript values are represented as follows.                           *)
(*   object        a TLA+ function from key strings to values              *)
(*   array         a TLA+ sequence                                         *)
(*   nullable      [null |-> BOOLEAN, v |-> value]                         *)
(*   thrown error  a cause chain: a sequence of links, outermost first     *)
(*   completion    [kind |-> "return" | "throw", val |-> value or chain]   *)
(***************************************************************************)
EXTENDS Integers, Sequences, FiniteSets, TLC

VARIABLES
    env,        \* process.env and the secret file, as seen at module load
    ZT_SECRET,  \* module-level token (part_000:31-48)
    op,         \* the exported function that was called
    args,       \* its arguments
    pc,         \* position of the call
    opts,       \* what getOptions resolved for the call
    reqs,       \* every HTTP request issued so far, in issue order
    resp,       \* per request: "pending", "ok" or "err"
    members,    \* aggregators: the member list that was fetched
    network,    \* aggregators: the network record that was fetched
    membersArr, \* aggregators: member details collected so far
    controllerStatus, \* network_create: the node status that was fetched
    outcome,    \* "none" while running, then "return" or "throw"
    ret,        \* the returned value when outcome = "return", else {}
    err         \* the thrown cause chain when outcome = "throw"

vars == <<env, ZT_SECRET, op, args, pc, opts, reqs, resp, members, network,
          membersArr, controllerStatus, outcome, ret, err>>

-----------------------------------------------------------------------------
(* Bounds of the model *)

MaxMembers == 2
MaxLen == 2

-----------------------------------------------------------------------------
(* JavaScript helpers *)

\* {...a, ...b}: the later spread wins on a shared key
Spread(a, b) ==
    [k \in (DOMAIN a) \cup (DOMAIN b) |-> IF k \in DOMAIN b THEN b[k] ELSE a[k]]

\* const {id, config, ...otherProps} = o : the rest object
RestOf(o) == [k \in (DOMAIN o) \ {"id", "config"} |-> o[k]]

\* a single-key object {key: value}
Obj1(key, value) == [k \in {key} |-> value]

EmptyObj == [k \in {} |-> "x"]

Null == [null |-> TRUE, v |-> <<>>]
NonNull(x) == [null |-> FALSE, v |-> x]

Return(x) == [kind |-> "return", val |-> x]

\* an array or a number that an exported operation returns is tagged with its
\* type (the other returned values are objects)
Arr(elems) == [array |-> elems]
Num(n) == [number |-> n]
Throw(e) == [kind |-> "throw", val |-> e]

TypeError == <<[type |-> "TypeError", prefix |-> "", text |-> "", addr |-> <<>>, status |-> 0]>>

-----------------------------------------------------------------------------
(* Flattening layer *)

flattenCentralMember(member) ==
    LET nodeId == member["id"]
        config == member["config"]
        otherProps == RestOf(member)
    IN  Spread(Spread(Obj1("nodeId", nodeId), config), otherProps)

flattenCentralMembers(ms) ==
    IF ms.null THEN Return(<<>>)
    ELSE Return([i \in 1..Len(ms.v) |-> flattenCentralMember(ms.v[i])])

\* faulty variant: spreads the whole record instead of the rest object
flattenNetwork_SpreadsWhole(nw) ==
    Spread(Spread(Obj1("nwid", nw["id"]), nw["config"]), nw)

flattenNetwork(nw) ==
    LET nwid == nw["id"]
        config == nw["config"]
        otherProps == RestOf(nw)
    IN  Spread(Spread(Obj1("nwid", nwid), config), otherProps)

flattenNetworks(networks) ==
    IF networks.null THEN Throw(TypeError)  \* null.map(...)
    ELSE Return([i \in 1..Len(networks.v) |-> flattenNetwork(networks.v[i])])

-----------------------------------------------------------------------------
(* Inputs of the flattening layer *)

SeqsUpTo(S, n) == UNION {[1..m -> S] : m \in 0..n}

\* a value is opaque: it is tagged with where it came from
Val(origin, k) == <<origin, k>>

WireIds == {"i1", "i2"}
CfgKeys == {"id", "config", "nwid", "nodeId", "name"}
RestKeys == {"nwid", "nodeId", "name"}

\* the wire shape {id, config, ...rest}
WireRec(idv, cfgKeys, restKeys) ==
    Spread([id |-> Val("id", idv), config |-> [k \in cfgKeys |-> Val("config", k)]],
           [k \in restKeys |-> Val("rest", k)])

WireRecords ==
    {WireRec(i, c, r) : i \in WireIds, c \in SUBSET CfgKeys, r \in SUBSET RestKeys}

WireSamples ==
    {WireRec("i1", {"name"}, {}), WireRec("i2", {"id", "name"}, {"name"}),
     WireRec("i2", {}, {"nwid", "nodeId"})}

WireSeqs == {Null} \cup {NonNull(s) : s \in SeqsUpTo(WireSamples, MaxLen)}

-----------------------------------------------------------------------------
(* Module load: the Local secret token (part_000:31-48) *)

Undefined == "undefined"            \* the JavaScript value undefined
FileToken == "token-from-file"      \* what fs.readFileSync returns
Falsy(s) == s \in {Undefined, ""}

Envs ==
    [ZT_SECRET : {Undefined, "override-token"},
     IS_GITHUB_ACTION : {Undefined, "true"},
     fileReadable : BOOLEAN]

\* faulty variant: the secret file is tried before the test context is looked at
LoadSecret_FileFirst(e) ==
    IF Falsy(e.ZT_SECRET)
    THEN IF e.fileReadable THEN FileToken
         ELSE IF e.IS_GITHUB_ACTION = "true" THEN "dummy_text_to_skip_gh"
         ELSE e.ZT_SECRET
    ELSE e.ZT_SECRET

LoadSecret(e) ==
    IF Falsy(e.ZT_SECRET)
    THEN IF e.IS_GITHUB_ACTION # "true"
         THEN IF e.fileReadable THEN FileToken ELSE e.ZT_SECRET
         ELSE "dummy_text_to_skip_gh"
    ELSE e.ZT_SECRET

ModuleLoad ==
    /\ env \in Envs
    /\ ZT_SECRET = LoadSecret(env)

-----------------------------------------------------------------------------
(* Specification of the flattening layer: Init draws the call and its input, *)
(* one action per exported function applies it.                              *)

Idle ==
    /\ opts = EmptyObj
    /\ reqs = <<>>
    /\ resp = <<>>
    /\ members = [shape |-> "null", v |-> <<>>]
    /\ network = EmptyObj
    /\ membersArr = <<>>
    /\ controllerStatus = EmptyObj
    /\ outcome = "none"
    /\ ret = EmptyObj
    /\ err = <<>>

InitFlatten ==
    /\ ModuleLoad
    /\ Idle
    /\ pc = "call"
    /\ \/ op \in {"flattenNetwork", "flattenCentralMember"} /\ args \in WireRecords
       \/ op \in {"flattenNetworks", "flattenCentralMembers"} /\ args \in WireSeqs

\* the call completes with completion c
Complete(c) ==
    /\ pc' = "done"
    /\ outcome' = c.kind
    /\ ret' = IF c.kind = "return" THEN c.val ELSE EmptyObj
    /\ err' = IF c.kind = "throw" THEN c.val ELSE <<>>

Call_flattenNetwork ==
    /\ pc = "call" /\ op = "flattenNetwork"
    /\ Complete(Return(flattenNetwork(args)))
    /\ UNCHANGED <<env, ZT_SECRET, controllerStatus, op, args, opts, reqs, resp, members, network, membersArr>>

Call_flattenCentralMember ==
    /\ pc = "call" /\ op = "flattenCentralMember"
    /\ Complete(Return(flattenCentralMember(args)))
    /\ UNCHANGED <<env, ZT_SECRET, controllerStatus, op, args, opts, reqs, resp, members, network, membersArr>>

Call_flattenNetworks ==
    /\ pc = "call" /\ op = "flattenNetworks"
    /\ Complete(flattenNetworks(args))
    /\ UNCHANGED <<env, ZT_SECRET, controllerStatus, op, args, opts, reqs, resp, members, network, membersArr>>

Call_flattenCentralMembers ==
    /\ pc = "call" /\ op = "flattenCentralMembers"
    /\ Complete(flattenCentralMembers(args))
    /\ UNCHANGED <<env, ZT_SECRET, controllerStatus, op, args, opts, reqs, resp, members, network, membersArr>>

NextFlatten ==
    \/ Call_flattenNetwork
    \/ Call_flattenCentralMember
    \/ Call_flattenNetworks
    \/ Call_flattenCentralMembers

SpecFlatten == InitFlatten /\ [][NextFlatten]_vars

-----------------------------------------------------------------------------
(* Errors.  A thrown value is its cause chain, outermost error first. *)

Link(type, prefix, text, addr, status) ==
    [type |-> type, prefix |-> prefix, text |-> text, addr |-> addr, status |-> status]

\* what axios rejects with; status 0 stands for a failure without a response
AxiosError(status) == <<Link("AxiosError", "", "", <<>>, status)>>

\* a rejected database read
DbError == <<Link("PrismaError", "", "", <<>>, 0)>>

\* new APIError(message, cause): the message is prefix followed by text (and by
\* addr in the helpers' messages); an undefined cause is the empty chain
APIError(prefix, text, addr, cause) == <<Link("APIError", prefix, text, addr, 0)>> \o cause

\* axios.isAxiosError(error)
isAxiosError(error) == error # <<>> /\ error[1].type = "AxiosError"

\* try { c } catch (error) { throw new APIError(prefix + text, error) }
Catch(c, prefix, text) ==
    IF c.kind = "throw" THEN Throw(APIError(prefix, text, <<>>, c.val)) ELSE c

-----------------------------------------------------------------------------
(* Credential resolver *)

LOCAL_ZT_ADDR == "http://127.0.0.1:9993"
CENTRAL_ZT_ADDR == "https://api.zerotier.com/api/v1"

\* what prisma.globalOptions.findFirst can answer
DbResults ==
    {[kind |-> "reject", ztCentralApiKey |-> "", ztCentralApiUrl |-> ""],
     [kind |-> "null", ztCentralApiKey |-> "", ztCentralApiUrl |-> ""],
     [kind |-> "row", ztCentralApiKey |-> "api-key", ztCentralApiUrl |-> ""],
     [kind |-> "row", ztCentralApiKey |-> "api-key", ztCentralApiUrl |-> "https://central.example"]}

\* a local call reads no settings
NoDb == [kind |-> "unread", ztCentralApiKey |-> "", ztCentralApiUrl |-> ""]

Db(isCentral) == IF isCentral THEN DbResults ELSE {NoDb}

getOptions(isCentral, db) ==
    IF isCentral
    THEN IF db.kind = "reject" THEN Throw(DbError)
         ELSE IF db.kind = "null" THEN Throw(TypeError)  \* destructuring of null
         ELSE Return(
                [ztCentralApiUrl |->
                    IF db.ztCentralApiUrl = "" THEN CENTRAL_ZT_ADDR ELSE db.ztCentralApiUrl,
                 headers |->
                    Spread(Obj1("Authorization", <<"token", db.ztCentralApiKey>>),
                           Obj1("Content-Type", <<"application/json">>))])
    ELSE Return(
           [ztCentralApiUrl |-> "null",
            headers |->
               Spread(Obj1("X-ZT1-Auth", <<ZT_SECRET>>),
                      Obj1("Content-Type", <<"application/json">>))])

-----------------------------------------------------------------------------
(* Transport wrapper.  A response is [status, data], chosen by the backend. *)

Statuses == {200, 401, 404, 500, 0}

Ok(status) == status \in 200..299

\* `${base}/a/b`
Url(base, path) == <<base>> \o path

NoBody == EmptyObj

Req(verb, addr, headers, body) ==
    [verb |-> verb, addr |-> addr, headers |-> headers, body |-> body]

getData(addr, r) ==
    IF Ok(r.status) THEN Return(r.data)
    ELSE LET error == AxiosError(r.status)
         IN  IF isAxiosError(error) /\ r.status = 401
                 THEN Throw(APIError("", "Invalid API Key", <<>>, error))
             ELSE IF isAxiosError(error) /\ r.status = 404
                 THEN Throw(APIError("", "Endpoint Not Found", <<>>, error))
             ELSE Throw(APIError("", "An error occurred fetching data from", addr, error))

postData(addr, r) ==
    IF Ok(r.status) THEN Return(r.data)
    ELSE Throw(APIError("", "An error occurred while posting data to", addr,
                        AxiosError(r.status)))

\* axios.delete / axios.get used directly: resolves with the response
axiosCall(r) ==
    IF Ok(r.status) THEN Return(r) ELSE Throw(AxiosError(r.status))

\* "ok" or "err": how a request ended
Ended(r) == IF Ok(r.status) THEN "ok" ELSE "err"

-----------------------------------------------------------------------------
(* Inputs of the facades and what the backends can answer *)

Nwids == {"8056c2e21c000001"}
\* member ids (none is an array index, so an object keyed by them enumerates
\* in insertion order)
IdTable == <<"deadbeef01", "cafe000002", "f00d000003", "beef000004">>
MemberIds == {IdTable[i] : i \in 1..MaxMembers}
Names == {"lab", "dev"}
PartialFields == {Obj1("name", Val("update", "name"))}

\* caller-supplied address configurations of network_create
IpAssignments ==
    {[k \in K |-> Val("ipAssignment", k)] : K \in SUBSET {"ipAssignmentPools", "private", "name"}}

\* network records as Central sends them
NetWires ==
    {WireRec("i1", {"name"}, {}), WireRec("i1", {"name", "cidr"}, {}),
     WireRec("i2", {"name"}, {"cidr"}), WireRec("i2", {"name", "cidr", "nwid"}, {"name", "cidr"})}

\* node status of the local controller
StatusData == {Obj1("address", a) : a \in {"efcc1b0947", "a1b2c3d4e5"}}

Opaque == {Obj1("data", Val("data", "data"))}

\* a 2xx response carries data drawn from D; a failure carries none
Responses(D) ==
    {[status |-> 200, data |-> d] : d \in D}
    \cup {[status |-> st, data |-> EmptyObj] : st \in Statuses \ {200}}

-----------------------------------------------------------------------------
(* Facades calling one endpoint.  Each yields what the call did: the     *)
(* requests it issued, how each ended, and its completion.  db is what   *)
(* the settings read answers and r what the backend answers.             *)

Run(rq, rs, c) == [reqs |-> rq, resp |-> rs, c |-> c]

Prefix(isCentral) == IF isCentral THEN "[CENTRAL] " ELSE ""

ping_api(db, r) ==
    LET o == getOptions(TRUE, db) IN
    IF o.kind = "throw" THEN Run(<<>>, <<>>, o)
    ELSE LET addr == Url(o.val.ztCentralApiUrl, <<"network">>)
         IN  Run(<<Req("GET", addr, o.val.headers, NoBody)>>, <<Ended(r)>>, getData(addr, r))

get_controller_version(r) ==
    LET addr == Url(LOCAL_ZT_ADDR, <<"controller">>)
        o == getOptions(FALSE, NoDb)
    IN  Run(<<Req("GET", addr, o.val.headers, NoBody)>>, <<Ended(r)>>,
            Catch(getData(addr, r), "", "An error occurred while getting get_controller_version"))

get_controller_networks(isCentral, db, r) ==
    LET o == getOptions(isCentral, db) IN
    IF o.kind = "throw" THEN Run(<<>>, <<>>, o)
    ELSE LET addr == IF isCentral THEN Url(o.val.ztCentralApiUrl, <<"network">>)
                     ELSE Url(LOCAL_ZT_ADDR, <<"controller", "network">>)
             g == getData(addr, r)
             f == flattenNetworks(g.val)
             c == IF isCentral /\ g.kind = "return"
                  THEN IF f.kind = "return" THEN Return(Arr(f.val)) ELSE f
                  ELSE g
         IN  Run(<<Req("GET", addr, o.val.headers, NoBody)>>, <<Ended(r)>>,
                 IF c.kind = "throw"
                 THEN Throw(APIError(Prefix(isCentral),
                                     "An error occurred while getting get_controller_networks",
                                     <<>>, IF isAxiosError(c.val) THEN c.val ELSE <<>>))
                 ELSE c)

get_controller_status(isCentral, db, r) ==
    LET o == getOptions(isCentral, db) IN
    IF o.kind = "throw" THEN Run(<<>>, <<>>, o)
    ELSE LET addr == IF isCentral THEN Url(o.val.ztCentralApiUrl, <<"status">>)
                     ELSE Url(LOCAL_ZT_ADDR, <<"status">>)
         IN  Run(<<Req("GET", addr, o.val.headers, NoBody)>>, <<Ended(r)>>,
                 Catch(getData(addr, r), Prefix(isCentral),
                       "An error occurred while getting get_controller_status"))

network_delete(nwid, isCentral, db, r) ==
    LET o == getOptions(isCentral, db) IN
    IF o.kind = "throw" THEN Run(<<>>, <<>>, o)
    ELSE LET addr == IF isCentral THEN Url(o.val.ztCentralApiUrl, <<"network", nwid>>)
                     ELSE Url(LOCAL_ZT_ADDR, <<"controller", "network", nwid>>)
             response == axiosCall(r)
         IN  Run(<<Req("DELETE", addr, o.val.headers, NoBody)>>, <<Ended(r)>>,
                 IF response.kind = "return"
                 THEN Return([status |-> response.val.status, data |-> Undefined])
                 ELSE Catch(response, Prefix(isCentral),
                            "An error occurred while getting network_delete"))

network_members(nwid, isCentral, db, r) ==
    LET o == getOptions(isCentral, db) IN
    IF o.kind = "throw" THEN Run(<<>>, <<>>, o)
    ELSE LET addr == IF isCentral THEN Url(o.val.ztCentralApiUrl, <<"network", nwid, "member">>)
                     ELSE Url(LOCAL_ZT_ADDR, <<"controller", "network", nwid, "member">>)
         IN  Run(<<Req("GET", addr, o.val.headers, NoBody)>>, <<Ended(r)>>,
                 Catch(getData(addr, r), Prefix(isCentral),
                       "An error occurred while getting network_members"))

network_update(nwid, payload, central, db, r) ==
    LET o == getOptions(central, db) IN
    IF o.kind = "throw" THEN Run(<<>>, <<>>, o)
    ELSE LET addr == IF central THEN Url(o.val.ztCentralApiUrl, <<"network", nwid>>)
                     ELSE Url(LOCAL_ZT_ADDR, <<"controller", "network", nwid>>)
         IN  Run(<<Req("POST", addr, o.val.headers, payload)>>, <<Ended(r)>>,
                 Catch(postData(addr, r), Prefix(central),
                       "An error occurred while getting network_update"))

member_delete(nwid, memberId, central, db, r) ==
    LET o == getOptions(central, db) IN
    IF o.kind = "throw" THEN Run(<<>>, <<>>, o)
    ELSE LET addr == IF central
                     THEN Url(o.val.ztCentralApiUrl, <<"network", nwid, "member", memberId>>)
                     ELSE Url(LOCAL_ZT_ADDR, <<"controller", "network", nwid, "member", memberId>>)
             response == axiosCall(r)
         IN  Run(<<Req("DELETE", addr, o.val.headers, NoBody)>>, <<Ended(r)>>,
                 IF response.kind = "return" THEN Return(Num(response.val.status))
                 ELSE Catch(response, Prefix(central),
                            "An error occurred while getting member_delete"))

member_update(nwid, memberId, payload, central, db, r) ==
    LET o == getOptions(central, db) IN
    IF o.kind = "throw" THEN Run(<<>>, <<>>, o)
    ELSE LET addr == IF central
                     THEN Url(o.val.ztCentralApiUrl, <<"network", nwid, "member", memberId>>)
                     ELSE Url(LOCAL_ZT_ADDR, <<"controller", "network", nwid, "member", memberId>>)
         IN  Run(<<Req("POST", addr, o.val.headers, payload)>>, <<Ended(r)>>,
                 Catch(postData(addr, r), Prefix(central),
                       "An error occurred while getting member_update"))

member_details(nwid, memberId, central, db, r) ==
    LET o == getOptions(central, db) IN
    IF o.kind = "throw" THEN Run(<<>>, <<>>, o)
    ELSE LET addr == IF central
                     THEN Url(o.val.ztCentralApiUrl, <<"network", nwid, "member", memberId>>)
                     ELSE Url(LOCAL_ZT_ADDR, <<"controller", "network", nwid, "member", memberId>>)
         IN  Run(<<Req("GET", addr, o.val.headers, NoBody)>>, <<Ended(r)>>,
                 Catch(getData(addr, r), "", "An error occurred while getting member_detail"))

\* faulty variant: peers swallows the failure like peer does
peers_Swallows(r) ==
    LET addr == Url(LOCAL_ZT_ADDR, <<"peer">>)
        o == getOptions(FALSE, NoDb)
        response == axiosCall(r)
    IN  Run(<<Req("GET", addr, o.val.headers, NoBody)>>, <<Ended(r)>>,
            IF response.kind = "return" THEN Return(response.val.data) ELSE Return(Arr(<<>>)))

peers(r) ==
    LET addr == Url(LOCAL_ZT_ADDR, <<"peer">>)
        o == getOptions(FALSE, NoDb)
        response == axiosCall(r)
    IN  Run(<<Req("GET", addr, o.val.headers, NoBody)>>, <<Ended(r)>>,
            IF response.kind = "return" THEN Return(response.val.data)
            ELSE Catch(response, "", "An error occurred while getting peers"))

peer(userZtAddress, r) ==
    LET addr == Url(LOCAL_ZT_ADDR, <<"peer", userZtAddress>>)
        o == getOptions(FALSE, NoDb)
        response == getData(addr, r)
    IN  Run(<<Req("GET", addr, o.val.headers, NoBody)>>, <<Ended(r)>>,
            IF response.kind = "throw" THEN Return(Arr(<<>>))     \* console.error; return []
            ELSE IF response.val.null THEN Return(EmptyObj)       \* if (!response) return {}
            ELSE Return(response.val.v))

-----------------------------------------------------------------------------
(* Specification of the exported operations: Init is the loaded module,  *)
(* one action per exported function calling one endpoint, one action per *)
(* resumption point of the functions that await several requests.        *)

Init ==
    /\ ModuleLoad
    /\ Idle
    /\ pc = "idle"
    /\ op = "none"
    /\ args = EmptyObj

\* a call that runs to completion in one step
Finish(name, a, run) ==
    /\ pc = "idle"
    /\ op' = name
    /\ args' = a
    /\ reqs' = run.reqs
    /\ resp' = run.resp
    /\ Complete(run.c)
    /\ UNCHANGED <<env, ZT_SECRET, controllerStatus, opts, members, network, membersArr>>

Call_ping_api ==
    \E db \in DbResults, r \in Responses(Opaque) :
        Finish("ping_api", [isCentral |-> TRUE], ping_api(db, r))

Call_get_controller_version ==
    \E r \in Responses(Opaque) :
        Finish("get_controller_version", [isCentral |-> FALSE], get_controller_version(r))

Call_get_controller_networks ==
    \E isCentral \in BOOLEAN :
      \E db \in Db(isCentral), r \in Responses(IF isCentral THEN WireSeqs ELSE Opaque) :
        Finish("get_controller_networks", [isCentral |-> isCentral],
               get_controller_networks(isCentral, db, r))

Call_get_controller_status ==
    \E isCentral \in BOOLEAN :
      \E db \in Db(isCentral), r \in Responses(StatusData) :
        Finish("get_controller_status", [isCentral |-> isCentral],
               get_controller_status(isCentral, db, r))

Call_network_delete ==
    \E nwid \in Nwids, isCentral \in BOOLEAN :
      \E db \in Db(isCentral), r \in Responses(Opaque) :
        Finish("network_delete", [nwid |-> nwid, isCentral |-> isCentral],
               network_delete(nwid, isCentral, db, r))

Call_network_members ==
    \E nwid \in Nwids, isCentral \in BOOLEAN :
      \E db \in Db(isCentral), r \in Responses(Opaque) :
        Finish("network_members", [nwid |-> nwid, isCentral |-> isCentral],
               network_members(nwid, isCentral, db, r))

Call_network_update ==
    \E nwid \in Nwids, payload \in PartialFields, isCentral \in BOOLEAN :
      \E db \in Db(isCentral), r \in Responses(Opaque) :
        Finish("network_update", [nwid |-> nwid, isCentral |-> isCentral],
               network_update(nwid, payload, isCentral, db, r))

Call_member_delete ==
    \E nwid \in Nwids, memberId \in MemberIds, isCentral \in BOOLEAN :
      \E db \in Db(isCentral), r \in Responses(Opaque) :
        Finish("member_delete", [nwid |-> nwid, memberId |-> memberId, isCentral |-> isCentral],
               member_delete(nwid, memberId, isCentral, db, r))

Call_member_update ==
    \E nwid \in Nwids, memberId \in MemberIds, payload \in PartialFields, isCentral \in BOOLEAN :
      \E db \in Db(isCentral), r \in Responses(Opaque) :
        Finish("member_update", [nwid |-> nwid, memberId |-> memberId, isCentral |-> isCentral],
               member_update(nwid, memberId, payload, isCentral, db, r))

Call_member_details ==
    \E nwid \in Nwids, memberId \in MemberIds, isCentral \in BOOLEAN :
      \E db \in Db(isCentral), r \in Responses(Opaque) :
        Finish("member_details", [nwid |-> nwid, memberId |-> memberId, isCentral |-> isCentral],
               member_details(nwid, memberId, isCentral, db, r))

Call_peers ==
    \E r \in Responses(Opaque) :
        Finish("peers", [isCentral |-> FALSE], peers(r))

Call_peer ==
    \E userZtAddress \in MemberIds, r \in Responses({Null} \cup {NonNull(d) : d \in Opaque}) :
        Finish("peer", [userZtAddress |-> userZtAddress, isCentral |-> FALSE],
               peer(userZtAddress, r))

-----------------------------------------------------------------------------
(* network_create (part_000:244-283) *)

\* faulty variant: the address without the filler
WithFiller_NoFiller(address) == address

\* `${controllerStatus.address}______`
WithFiller(address) ==
    CASE address = "efcc1b0947" -> "efcc1b0947______"
      [] address = "a1b2c3d4e5" -> "a1b2c3d4e5______"
      [] OTHER -> "undefined______"

\* { name, private: true, ...ipAssignment }
Payload(name, ipAssignment) ==
    Spread(Spread(Obj1("name", Val("name", name)), Obj1("private", Val("boolean", "true"))),
           ipAssignment)

\* a request whose response has not arrived stands in the facades as this one
PendingR == [status |-> 200, data |-> EmptyObj]

\* requests rq are issued and their promises are pending
Issue(rq) ==
    /\ reqs' = reqs \o rq
    /\ resp' = resp \o [j \in 1..Len(rq) |-> "pending"]

\* the response r to request i has arrived, and the continuation issues rq
Settle(i, r, rq) ==
    /\ reqs' = reqs \o rq
    /\ resp' = [resp EXCEPT ![i] = Ended(r)] \o [j \in 1..Len(rq) |-> "pending"]

CreateCatch(c) ==
    Catch(c, Prefix(args.isCentral), "An error occurred while getting network_create")

Call_network_create ==
    /\ pc = "idle"
    /\ \E name \in Names, ipAssignment \in IpAssignments, isCentral \in BOOLEAN :
         \E db \in Db(isCentral) :
           LET o == getOptions(isCentral, db)
               payload == Payload(name, ipAssignment)
           IN  /\ op' = "network_create"
               /\ args' = [name |-> name, ipAssignment |-> ipAssignment,
                           isCentral |-> isCentral]
               /\ IF o.kind = "throw"
                  THEN /\ Complete(o)
                       /\ UNCHANGED <<opts, reqs, resp>>
                  ELSE /\ opts' = o.val
                       /\ UNCHANGED <<outcome, ret, err>>
                       /\ IF isCentral
                          THEN /\ Issue(<<Req("POST", Url(o.val.ztCentralApiUrl, <<"network">>),
                                              o.val.headers,
                                              [config |-> Spread(EmptyObj, payload),
                                               description |-> "created with ztnet"])>>)
                               /\ pc' = "network_create:post"
                          ELSE /\ Issue(get_controller_status(isCentral, NoDb, PendingR).reqs)
                               /\ pc' = "network_create:status"
    /\ UNCHANGED <<env, ZT_SECRET, controllerStatus, members, network, membersArr>>

Resume_network_create_status ==
    /\ pc = "network_create:status"
    /\ \E r \in Responses(StatusData) :
         LET status == get_controller_status(args.isCentral, NoDb, r).c IN
         IF status.kind = "throw"
         THEN /\ Settle(1, r, <<>>)
              /\ Complete(CreateCatch(status))
              /\ UNCHANGED controllerStatus
         ELSE /\ controllerStatus' = status.val
              /\ Settle(1, r,
                    <<Req("POST",
                          Url(LOCAL_ZT_ADDR,
                              <<"controller", "network", WithFiller(status.val["address"])>>),
                          opts.headers, Payload(args.name, args.ipAssignment))>>)
              /\ pc' = "network_create:post"
              /\ UNCHANGED <<outcome, ret, err>>
    /\ UNCHANGED <<env, ZT_SECRET, op, args, opts, members, network, membersArr>>

Resume_network_create_post ==
    /\ pc = "network_create:post"
    /\ \E r \in Responses(IF args.isCentral THEN NetWires ELSE Opaque) :
         LET data == postData(reqs[Len(reqs)].addr, r) IN
         /\ Settle(Len(reqs), r, <<>>)
         /\ network' = IF data.kind = "return" THEN data.val ELSE network
         /\ Complete(CreateCatch(IF args.isCentral /\ data.kind = "return"
                                 THEN Return(flattenNetwork(data.val))
                                 ELSE data))
    /\ UNCHANGED <<env, ZT_SECRET, controllerStatus, op, args, opts, members, membersArr>>

-----------------------------------------------------------------------------
(* What the member endpoints answer.  A JSON value that the code treats  *)
(* as a collection is [shape, v]: null, an array (v its elements) or an  *)
(* object (v its <<key, value>> entries in property order).              *)

JsNull == [shape |-> "null", v |-> <<>>]
JsArray(elems) == [shape |-> "array", v |-> elems]
JsObject(entries) == [shape |-> "object", v |-> entries]

\* Object.entries(x)
ObjectEntries(x) ==
    IF x.shape = "null" THEN Throw(TypeError)
    ELSE IF x.shape = "array" THEN Return([i \in 1..Len(x.v) |-> <<ToString(i - 1), x.v[i]>>])
    ELSE Return(x.v)

\* `${value}`
Str(value) == value[2]

\* a member as Central sends it
MemberWire(m) ==
    Spread([id |-> Val("id", m), config |-> [k \in {"authorized"} |-> Val("config", k)]],
           Obj1("nodeId", Val("nodeId", m)))

MemberLists ==
    {l \in SeqsUpTo(MemberIds, MaxMembers) : \A i, j \in 1..Len(l) : i # j => l[i] # l[j]}

\* the two shapes of a member list: Central's array of members, the local
\* controller's object {memberId: revision}
MemberListData ==
    {JsNull}
    \cup {JsArray([i \in 1..Len(l) |-> MemberWire(l[i])]) : l \in MemberLists}
    \cup {JsObject([i \in 1..Len(l) |-> <<l[i], Val("revision", l[i])>>]) : l \in MemberLists}

LocalNetData == {[k \in {"nwid", "name"} |-> Val("network", k)]}

-----------------------------------------------------------------------------
(* local_network_detail (part_000:332-365) *)

\* faulty variant: a failure returns what was collected so far
LocalCatch_ReturnsPartial(c) ==
    IF c.kind = "throw" THEN Return([network |-> network, members |-> membersArr]) ELSE c

LocalCatch(c) ==
    Catch(c, "", "An error occurred while getting data from network_details function")

LocalMemberReq(memberId) ==
    Req("GET", Url(LOCAL_ZT_ADDR, <<"controller", "network", args.nwid, "member", memberId>>),
        opts.headers, NoBody)

\* faulty variant: the loop skips an entry
NextEntry_Skips(k) == k + 2

\* the index of the entry fetched after entry k
NextEntry(k) == k + 1

Call_local_network_detail ==
    /\ pc = "idle"
    /\ \E nwid \in Nwids, isCentral \in BOOLEAN :
         \E db \in Db(isCentral) :
           LET o == getOptions(isCentral, db) IN
           /\ op' = "local_network_detail"
           /\ args' = [nwid |-> nwid, isCentral |-> isCentral]
           /\ IF o.kind = "throw"
              THEN /\ Complete(o)
                   /\ UNCHANGED <<opts, reqs, resp>>
              ELSE /\ opts' = o.val
                   /\ Issue(network_members(nwid, FALSE, NoDb, PendingR).reqs)
                   /\ pc' = "local:members"
                   /\ UNCHANGED <<outcome, ret, err>>
    /\ UNCHANGED <<env, ZT_SECRET, controllerStatus, members, network, membersArr>>

Resume_local_members ==
    /\ pc = "local:members"
    /\ \E r \in Responses(MemberListData) :
         LET m == network_members(args.nwid, FALSE, NoDb, r).c IN
         IF m.kind = "throw"
         THEN /\ Settle(1, r, <<>>)
              /\ Complete(LocalCatch(m))
              /\ UNCHANGED members
         ELSE /\ members' = m.val
              /\ Settle(1, r, <<Req("GET",
                                    Url(LOCAL_ZT_ADDR, <<"controller", "network", args.nwid>>),
                                    opts.headers, NoBody)>>)
              /\ pc' = "local:network"
              /\ UNCHANGED <<outcome, ret, err>>
    /\ UNCHANGED <<env, ZT_SECRET, controllerStatus, op, args, opts, network, membersArr>>

\* faulty variant: a failed network-record fetch does not stop the member loop
Resume_local_network_IgnoresFailure ==
    /\ pc = "local:network"
    /\ \E r \in Responses(LocalNetData) :
         LET entries == ObjectEntries(members) IN
         /\ network' = r.data
         /\ IF entries.kind = "throw"
            THEN Settle(2, r, <<>>) /\ Complete(LocalCatch(entries))
            ELSE IF Len(entries.val) = 0
            THEN /\ Settle(2, r, <<>>)
                 /\ Complete(Return([network |-> Spread(EmptyObj, r.data), members |-> <<>>]))
            ELSE /\ Settle(2, r, <<LocalMemberReq(entries.val[1][1])>>)
                 /\ pc' = "local:loop"
                 /\ UNCHANGED <<outcome, ret, err>>
    /\ UNCHANGED <<env, ZT_SECRET, controllerStatus, op, args, opts, members, membersArr>>

Resume_local_network ==
    /\ pc = "local:network"
    /\ \E r \in Responses(LocalNetData) :
         LET nw == getData(reqs[2].addr, r)
             entries == ObjectEntries(members)
         IN  IF nw.kind = "throw"
             THEN /\ Settle(2, r, <<>>)
                  /\ Complete(LocalCatch(nw))
                  /\ UNCHANGED network
             ELSE /\ network' = nw.val
                  /\ IF entries.kind = "throw"
                     THEN Settle(2, r, <<>>) /\ Complete(LocalCatch(entries))
                     ELSE IF Len(entries.val) = 0
                     THEN /\ Settle(2, r, <<>>)
                          /\ Complete(Return([network |-> Spread(EmptyObj, nw.val),
                                              members |-> <<>>]))
                     ELSE /\ Settle(2, r, <<LocalMemberReq(entries.val[1][1])>>)
                          /\ pc' = "local:loop"
                          /\ UNCHANGED <<outcome, ret, err>>
    /\ UNCHANGED <<env, ZT_SECRET, controllerStatus, op, args, opts, members, membersArr>>

Resume_local_member ==
    /\ pc = "local:loop"
    /\ LET entries == ObjectEntries(members).val
           k == Len(membersArr) + 1
       IN  \E r \in Responses({MemberWire(entries[k][1])}) :
             LET memberDetails == getData(reqs[Len(reqs)].addr, r) IN
             IF memberDetails.kind = "throw"
             THEN /\ Settle(Len(reqs), r, <<>>)
                  /\ Complete(LocalCatch(memberDetails))
                  /\ UNCHANGED membersArr
             ELSE /\ membersArr' = Append(membersArr, memberDetails.val)
                  /\ IF NextEntry(k) <= Len(entries)
                     THEN /\ Settle(Len(reqs), r, <<LocalMemberReq(entries[NextEntry(k)][1])>>)
                          /\ UNCHANGED <<pc, outcome, ret, err>>
                     ELSE /\ Settle(Len(reqs), r, <<>>)
                          /\ Complete(Return([network |-> Spread(EmptyObj, network),
                                              members |-> membersArr']))
    /\ UNCHANGED <<env, ZT_SECRET, controllerStatus, op, args, opts, members, network>>

-----------------------------------------------------------------------------
(* central_network_detail (part_000:369-413) *)

Source(isCentral) == IF isCentral THEN "[ZT CENTRAL]" ELSE ""

CentralCatch(c, isCentral) ==
    Catch(c, Source(isCentral),
          " An error occurred while getting data from network_details function")

CentralAddr(o, nwid, isCentral) ==
    IF isCentral THEN Url(o.ztCentralApiUrl, <<"network", nwid>>)
    ELSE Url(LOCAL_ZT_ADDR, <<"controller", "network", nwid>>)

\* faulty variant: the last member is not fetched
MemberDetailRequests_DropsLast(addr, headers, ms) ==
    [i \in 1..(Len(ms) - 1) |->
        Req("GET", addr \o <<"member", Str(ms[i]["nodeId"])>>, headers, NoBody)]

\* members.map(async (member) => getData(`${addr}/member/${member?.nodeId}`, headers)):
\* every request is issued before the first await of Promise.all
MemberDetailRequests(addr, headers, ms) ==
    [i \in 1..Len(ms) |->
        Req("GET", addr \o <<"member", Str(ms[i]["nodeId"])>>, headers, NoBody)]

\* what IPv4gen(null).cidrOptions supplies
cidrOptions == Val("IPv4gen", "cidrOptions")

CentralResult(nw, arr) ==
    LET networkId == nw["id"]
        networkConfig == nw["config"]
        restData == RestOf(nw)
    IN  [network |->
            Spread(Spread(Spread(Obj1("cidr", cidrOptions), Obj1("nwid", networkId)), restData),
                   networkConfig),
         members |-> flattenCentralMembers(NonNull(arr)).val]

\* faulty variant: Promise.allSettled followed by a check, which waits for every promise
PromiseAll_AllSettled(settled) ==
    IF \E j \in 1..Len(settled) : settled[j] = "pending" THEN "pending"
    ELSE IF \E j \in 1..Len(settled) : settled[j] = "err" THEN "rejected"
    ELSE "fulfilled"

\* Promise.all, given how each promise stands ("pending", "ok", "err"): it
\* rejects with the first rejection and fulfils once every promise has
PromiseAll(settled) ==
    IF \E j \in 1..Len(settled) : settled[j] = "err" THEN "rejected"
    ELSE IF \A j \in 1..Len(settled) : settled[j] = "ok" THEN "fulfilled"
    ELSE "pending"

Call_central_network_detail ==
    /\ pc = "idle"
    /\ \E nwid \in Nwids, isCentral \in BOOLEAN :
         \E db \in Db(isCentral), db2 \in Db(isCentral) :
           LET o == getOptions(isCentral, db)
               nm == network_members(nwid, isCentral, db2, PendingR)
           IN  /\ op' = "central_network_detail"
               /\ args' = [nwid |-> nwid, isCentral |-> isCentral]
               /\ IF o.kind = "throw"
                  THEN /\ Complete(o)
                       /\ UNCHANGED <<opts, reqs, resp>>
                  ELSE /\ opts' = [ztCentralApiUrl |-> o.val.ztCentralApiUrl,
                                   headers |-> o.val.headers, membersDb |-> db2]
                       /\ IF Len(nm.reqs) = 0
                          THEN /\ Complete(CentralCatch(nm.c, isCentral))
                               /\ UNCHANGED <<reqs, resp>>
                          ELSE /\ Issue(nm.reqs)
                               /\ pc' = "central:members"
                               /\ UNCHANGED <<outcome, ret, err>>
    /\ UNCHANGED <<env, ZT_SECRET, controllerStatus, members, network, membersArr>>

Resume_central_members ==
    /\ pc = "central:members"
    /\ \E r \in Responses(MemberListData) :
         LET m == network_members(args.nwid, args.isCentral, opts.membersDb, r).c IN
         IF m.kind = "throw"
         THEN /\ Settle(1, r, <<>>)
              /\ Complete(CentralCatch(m, args.isCentral))
              /\ UNCHANGED members
         ELSE /\ members' = m.val
              /\ Settle(1, r, <<Req("GET", CentralAddr(opts, args.nwid, args.isCentral),
                                    opts.headers, NoBody)>>)
              /\ pc' = "central:network"
              /\ UNCHANGED <<outcome, ret, err>>
    /\ UNCHANGED <<env, ZT_SECRET, controllerStatus, op, args, opts, network, membersArr>>

Resume_central_network ==
    /\ pc = "central:network"
    /\ \E r \in Responses(NetWires) :
         LET addr == CentralAddr(opts, args.nwid, args.isCentral)
             nw == getData(addr, r)
         IN  IF nw.kind = "throw"
             THEN /\ Settle(2, r, <<>>)
                  /\ Complete(CentralCatch(nw, args.isCentral))
                  /\ UNCHANGED <<network, membersArr>>
             ELSE /\ network' = nw.val
                  /\ IF members.shape # "array"   \* members?.map is undefined or no function
                     THEN /\ Settle(2, r, <<>>)
                          /\ Complete(CentralCatch(Throw(TypeError), args.isCentral))
                          /\ UNCHANGED membersArr
                     ELSE LET rq == MemberDetailRequests(addr, opts.headers, members.v) IN
                          /\ Settle(2, r, rq)
                          /\ membersArr' = [j \in 1..Len(rq) |-> Null]
                          /\ IF Len(rq) = 0
                             THEN Complete(Return(CentralResult(nw.val, <<>>)))
                             ELSE pc' = "central:join" /\ UNCHANGED <<outcome, ret, err>>
    /\ UNCHANGED <<env, ZT_SECRET, controllerStatus, op, args, opts, members>>

\* a member-detail response arrives while Promise.all is awaited
Resume_central_member ==
    /\ pc = "central:join"
    /\ \E i \in 3..Len(reqs) :
         /\ resp[i] = "pending"
         /\ \E r \in Responses({MemberWire(Str(members.v[i - 2]["nodeId"]))}) :
              LET g == getData(reqs[i].addr, r)
                  arr == IF g.kind = "return"
                         THEN [membersArr EXCEPT ![i - 2] = NonNull(g.val)]
                         ELSE membersArr
                  all == PromiseAll([j \in 1..Len(membersArr) |->
                                        IF j = i - 2 THEN Ended(r) ELSE resp[j + 2]])
              IN  /\ Settle(i, r, <<>>)
                  /\ membersArr' = arr
                  /\ IF all = "rejected"
                     THEN Complete(CentralCatch(g, args.isCentral))
                     ELSE IF all = "fulfilled"
                     THEN Complete(Return(CentralResult(network,
                                   [j \in 1..Len(arr) |-> arr[j].v])))
                     ELSE UNCHANGED <<pc, outcome, ret, err>>
    /\ UNCHANGED <<env, ZT_SECRET, controllerStatus, op, args, opts, members, network>>

\* a member-detail response arrives after Promise.all has rejected
Straggler_central_member ==
    /\ pc = "done" /\ op = "central_network_detail"
    /\ \E i \in 3..Len(reqs) :
         /\ resp[i] = "pending"
         /\ \E r \in Responses({MemberWire(Str(members.v[i - 2]["nodeId"]))}) :
              Settle(i, r, <<>>)
    /\ UNCHANGED <<env, ZT_SECRET, controllerStatus, op, args, pc, opts, members, network, membersArr,
                   outcome, ret, err>>

-----------------------------------------------------------------------------

Next ==
    \/ Call_member_details
    \/ Call_network_update
    \/ Call_ping_api
    \/ Call_get_controller_version
    \/ Call_get_controller_networks
    \/ Call_get_controller_status
    \/ Call_network_create
    \/ Resume_network_create_status
    \/ Resume_network_create_post
    \/ Call_network_delete
    \/ Call_network_members
    \/ Call_local_network_detail
    \/ Resume_local_members
    \/ Resume_local_network
    \/ Resume_local_member
    \/ Call_central_network_detail
    \/ Resume_central_members
    \/ Resume_central_network
    \/ Resume_central_member
    \/ Straggler_central_member
    \/ Call_member_delete
    \/ Call_member_update
    \/ Call_peers
    \/ Call_peer

Spec == Init /\ [][Next]_vars

-----------------------------------------------------------------------------
(* Properties of the flattening layer (SpecFlatten) *)

FlattenDone == pc = "done" /\ op \in {"flattenNetwork", "flattenCentralMember"}
Identifier == IF op = "flattenNetwork" THEN "nwid" ELSE "nodeId"

\* C5 as stated: for any wire-shaped record {id, config, ...rest}, the flattened
\* record's identifier field equals id, its key set is the union of config's and
\* rest's keys plus the identifier, and it has no residual id or config key.
C5_AsStated ==
    FlattenDone =>
        /\ ret[Identifier] = args["id"]
        /\ DOMAIN ret = (DOMAIN args["config"]) \cup (DOMAIN RestOf(args)) \cup {Identifier}
        /\ "id" \notin DOMAIN ret
        /\ "config" \notin DOMAIN ret

\* C5 amended: the key set is the union of config's and rest's keys plus the
\* identifier; the identifier field equals id unless rest or config has a key of
\* the identifier's name (then rest's value, else config's, is carried); an id or
\* config key is present exactly when config itself has a key of that name.
C5_Flatten ==
    FlattenDone =>
        LET cfg == args["config"]
            rest == RestOf(args)
        IN  /\ DOMAIN ret = (DOMAIN cfg) \cup (DOMAIN rest) \cup {Identifier}
            /\ ret[Identifier] =
                  IF Identifier \in DOMAIN rest THEN rest[Identifier]
                  ELSE IF Identifier \in DOMAIN cfg THEN cfg[Identifier]
                  ELSE args["id"]
            /\ \A k \in {"id", "config"} : k \in DOMAIN ret <=> k \in DOMAIN cfg

\* a flattened record whose config carried an id key and a key of the identifier's name
C5_Witness ==
    /\ FlattenDone
    /\ {"id", Identifier} \subseteq DOMAIN args["config"]
    /\ "name" \in DOMAIN RestOf(args)
    /\ ret[Identifier] # args["id"]

\* C6 as stated: flattening a null or empty sequence yields an empty sequence and
\* never fails, for flattenCentralMembers and for flattenNetworks.
C6_AsStated ==
    (pc = "done" /\ op \in {"flattenNetworks", "flattenCentralMembers"}
        /\ (args.null \/ args.v = <<>>))
    => (outcome = "return" /\ ret = <<>>)

-----------------------------------------------------------------------------
(* Properties of the aggregators (Spec) *)

LocalOp == op = "local_network_detail"
CentralOp == op = "central_network_detail"

\* the member ids of the fetched member list, in the list's order
ListKeys ==
    IF members.shape = "object" THEN [i \in 1..Len(members.v) |-> members.v[i][1]]
    ELSE IF members.shape = "array" THEN [i \in 1..Len(members.v) |-> ToString(i - 1)]
    ELSE <<>>

\* requests 1 and 2 of an aggregator fetch the member list and the network record;
\* the later ones are its member-detail fetches
DetailCount == IF Len(reqs) > 2 THEN Len(reqs) - 2 ELSE 0
DetailId(i) == reqs[i + 2].addr[Len(reqs[i + 2].addr)]
Pending == {i \in 1..Len(resp) : resp[i] = "pending"}
Failed == {i \in 1..Len(resp) : resp[i] = "err"}

\* C1: local_network_detail issues one member-detail fetch per entry of the member
\* list, in the list's order, and strictly sequentially: the fetches issued so far
\* are those of a prefix of the list, every fetch but the latest has returned, at
\* most one request is in flight, and a returned aggregate has fetched every entry.
C1_LocalSequential ==
    LocalOp =>
        /\ DetailCount <= Len(ListKeys)
        /\ \A i \in 1..DetailCount : DetailId(i) = ListKeys[i]
        /\ \A i \in 1..(Len(reqs) - 1) : resp[i] = "ok"
        /\ Cardinality(Pending) <= 1
        /\ outcome = "return" => (DetailCount = Len(ListKeys) /\ Pending = {})

\* a local aggregate returned after two fetches whose order is not the id table's
C1_Witness ==
    /\ LocalOp /\ outcome = "return"
    /\ members.shape = "object"
    /\ DetailCount = 2
    /\ DetailId(1) = IdTable[2] /\ DetailId(2) = IdTable[1]

\* C2: central_network_detail issues exactly N member-detail fetches for a list of
\* N members, one per member, all in one step (never only some of them), and
\* returns only after all N have resolved successfully.
C2_CentralFanOut ==
    CentralOp =>
        /\ DetailCount > 0 =>
             /\ members.shape = "array"
             /\ DetailCount = Len(members.v)
             /\ \A i \in 1..DetailCount : DetailId(i) = Str(members.v[i]["nodeId"])
        /\ outcome = "return" =>
             /\ members.shape = "array"
             /\ DetailCount = Len(members.v)
             /\ \A i \in 1..Len(resp) : resp[i] = "ok"

\* all member-detail fetches of a list of at least two members are in flight at once
C2_Witness ==
    /\ CentralOp /\ pc = "central:join"
    /\ DetailCount >= 2
    /\ \A i \in 1..DetailCount : resp[i + 2] = "pending"

\* C3: for both aggregators a failed sub-fetch ends the call in an error; a call
\* that ended has either thrown or returned {network, members} with one member
\* per entry of the member list and no failed sub-fetch.
C3_AllOrNothing ==
    (LocalOp \/ CentralOp) =>
        /\ Failed # {} => outcome = "throw"
        /\ pc = "done" => outcome \in {"return", "throw"}
        /\ outcome = "return" =>
             /\ DOMAIN ret = {"network", "members"}
             /\ Len(ret.members) = Len(ListKeys)
             /\ Failed = {} /\ Pending = {}

\* a local aggregation failed on a member-detail fetch after it had collected one
C3_Witness ==
    /\ LocalOp /\ outcome = "throw"
    /\ Len(membersArr) >= 1
    /\ resp[Len(resp)] = "err"

\* C4: in central_network_detail the first rejected member-detail fetch fails the
\* call at once, whatever is still outstanding, and once the call has ended no
\* later response changes its outcome.
C4_FirstRejectionWins ==
    /\ [](CentralOp /\ Failed # {} => pc = "done" /\ outcome = "throw")
    /\ [][(CentralOp /\ pc = "done") =>
            (pc' = pc /\ outcome' = outcome /\ ret' = ret /\ err' = err)]_vars

\* the call has failed while a member-detail fetch is still outstanding
C4_Witness ==
    /\ CentralOp /\ outcome = "throw"
    /\ \E i \in 3..Len(resp) : resp[i] = "err"
    /\ \E i \in 3..Len(resp) : resp[i] = "pending"

-----------------------------------------------------------------------------
(* Properties of the error handling and of network_create (Spec) *)

HelperTexts ==
    {"Invalid API Key", "Endpoint Not Found", "An error occurred fetching data from",
     "An error occurred while posting data to"}

\* the kind of the taxonomy an error surfaces as: that of the typed error in its chain
Kind(e) ==
    IF \E i \in 1..Len(e) : e[i].type = "APIError" /\ e[i].text = "Invalid API Key"
        THEN "InvalidCredentials"
    ELSE IF \E i \in 1..Len(e) : e[i].type = "APIError" /\ e[i].text = "Endpoint Not Found"
        THEN "NotFound"
    ELSE "TransportFailure"

StatusKind(status) ==
    IF status = 401 THEN "InvalidCredentials"
    ELSE IF status = 404 THEN "NotFound"
    ELSE "TransportFailure"

\* the call threw an error that rests on a failed HTTP request
TransportThrow ==
    pc = "done" /\ outcome = "throw" /\ err # <<>> /\ err[Len(err)].type = "AxiosError"

\* C7 as stated: whatever the verb and the backend, a 401 surfaces as
\* InvalidCredentials, a 404 as NotFound, any other failure as TransportFailure.
C7_AsStated ==
    TransportThrow => Kind(err) = StatusKind(err[Len(err)].status)

\* C8 as stated: an operation that fails on a transport error throws an error
\* with an operation-specific message that wraps the transport error, and the
\* message carries the Central prefix exactly when the call was a Central one.
C8_AsStated ==
    (pc = "done" /\ outcome = "throw" /\ Failed # {}) =>
        /\ err[1].type = "APIError"
        /\ err[1].text \notin HelperTexts
        /\ Len(err) >= 2
        /\ args.isCentral <=> err[1].prefix \in {"[CENTRAL] ", "[ZT CENTRAL]"}

\* C9: an operation whose request failed ends in an error, except peer, which
\* returns an empty result instead.
C9_OnlyPeerSwallows ==
    (pc = "done" /\ Failed # {}) =>
        IF op = "peer" THEN outcome = "return" /\ ret = Arr(<<>>)
        ELSE outcome = "throw"

\* peer has returned although its request failed
C9_Witness ==
    /\ op = "peer" /\ pc = "done"
    /\ Failed = {1}
    /\ outcome = "return"

\* C10 as stated: network_create against Central posts {config: P, description}
\* to the networks endpoint, where P.name is the requested name, P.private is true
\* and P carries the address configuration's fields, and it returns the flattened
\* response, whose nwid is the response's id.
C10_AsStated ==
    (op = "network_create" /\ args.isCentral /\ Len(reqs) >= 1) =>
        LET body == reqs[1].body
            P == body.config
        IN  /\ Len(reqs) = 1
            /\ reqs[1].verb = "POST"
            /\ reqs[1].addr = Url(opts.ztCentralApiUrl, <<"network">>)
            /\ body.description = "created with ztnet"
            /\ P["name"] = Val("name", args.name)
            /\ P["private"] = Val("boolean", "true")
            /\ DOMAIN args.ipAssignment \subseteq DOMAIN P
            /\ outcome = "return" =>
                 (ret = flattenNetwork(network) /\ ret["nwid"] = network["id"])

-----------------------------------------------------------------------------
(* Properties of network_create against Local (Spec) *)

LocalCreate == op = "network_create" /\ ~args.isCentral
Posts == {i \in 1..Len(reqs) : reqs[i].verb = "POST"}

\* C11: network_create against Local first fetches the node status and only then
\* issues one POST, to the path made of the fetched address followed by the
\* filler, whatever the name and the address configuration; a failed status
\* fetch ends the call in an error without a POST.
C11_LocalCreate ==
    LocalCreate =>
        /\ Len(reqs) <= 2 /\ Posts \subseteq {2}
        /\ Len(reqs) >= 1 =>
              /\ reqs[1].verb = "GET"
              /\ reqs[1].addr = <<LOCAL_ZT_ADDR, "status">>
              /\ resp[1] = "err" => (Posts = {} /\ pc = "done" /\ outcome = "throw")
              /\ resp[1] = "pending" => Posts = {}
              /\ resp[1] = "ok" => Posts = {2}
        /\ outcome = "return" => Posts = {2}
        /\ Posts = {2} =>
              /\ resp[1] = "ok"
              /\ \E target \in {<<"efcc1b0947", "efcc1b0947______">>,
                                 <<"a1b2c3d4e5", "a1b2c3d4e5______">>} :
                    /\ controllerStatus["address"] = target[1]
                    /\ reqs[2].addr = <<LOCAL_ZT_ADDR, "controller", "network", target[2]>>

\* a Local creation whose address configuration carries a name has posted
C11_Witness ==
    /\ LocalCreate /\ outcome = "return"
    /\ "name" \in DOMAIN args.ipAssignment
    /\ Posts = {2}
    /\ controllerStatus["address"] = "a1b2c3d4e5"

-----------------------------------------------------------------------------
(* Specification of the Local secret token: the module is loaded in every *)
(* environment, an empty override included, and the facades that can talk *)
(* to the Local controller in one request are called.                     *)

SecretEnvs ==
    [ZT_SECRET : {Undefined, "", "override-token"},
     IS_GITHUB_ACTION : {Undefined, "true"},
     fileReadable : BOOLEAN]

InitSecret ==
    /\ env \in SecretEnvs
    /\ ZT_SECRET = LoadSecret(env)
    /\ Idle
    /\ pc = "idle"
    /\ op = "none"
    /\ args = EmptyObj

NextSecret ==
    \/ Call_get_controller_version
    \/ Call_get_controller_status
    \/ Call_network_members
    \/ Call_member_details
    \/ Call_peers

SpecSecret == InitSecret /\ [][NextSecret]_vars

\* the requests that carry the Local secret-token header
WithSecret == {i \in 1..Len(reqs) : "X-ZT1-Auth" \in DOMAIN reqs[i].headers}
TokenUsed(i) == reqs[i].headers["X-ZT1-Auth"][1]
TestContext == env.IS_GITHUB_ACTION = "true"

\* C12 as stated: the token used is the override if present, otherwise the
\* secret file's content if it can be read, otherwise, in the test context
\* only, the placeholder (and absent outside it).
C12_AsStated ==
    \A i \in WithSecret :
        TokenUsed(i) =
            IF env.ZT_SECRET \notin {Undefined, ""} THEN env.ZT_SECRET
            ELSE IF env.fileReadable THEN FileToken
            ELSE IF TestContext THEN "dummy_text_to_skip_gh"
            ELSE env.ZT_SECRET

\* C12 amended: the token used is the override if it is set and not empty;
\* otherwise, in the test context, the placeholder, whether or not the secret
\* file can be read; otherwise the file's content if it can be read, and else
\* the absent (or empty) override, without a failure.
C12_SecretPriority ==
    \A i \in WithSecret :
        /\ TokenUsed(i) =
              IF env.ZT_SECRET \notin {Undefined, ""} THEN env.ZT_SECRET
              ELSE IF TestContext THEN "dummy_text_to_skip_gh"
              ELSE IF env.fileReadable THEN FileToken
              ELSE env.ZT_SECRET
        /\ ~TestContext => TokenUsed(i) # "dummy_text_to_skip_gh"

\* a Local request in the test context, without override, with a readable file
C12_Witness ==
    /\ WithSecret # {}
    /\ TestContext /\ env.ZT_SECRET = Undefined /\ env.fileReadable
    /\ TokenUsed(1) = "dummy_text_to_skip_gh"

-----------------------------------------------------------------------------
(* Properties of the assembled records and of the request order (Spec) *)

MemberListAddr == <<LOCAL_ZT_ADDR, "controller", "network", args.nwid, "member">>
NetworkAddr == <<LOCAL_ZT_ADDR, "controller", "network", args.nwid>>
IsDetailAddr(a) == Len(a) = 6 /\ SubSeq(a, 1, 5) = MemberListAddr

\* C14 as stated: local_network_detail fetches the member list, then every
\* member detail, then the network record: the network record is requested
\* only after every member-detail fetch has returned.
C14_AsStated ==
    LocalOp =>
        \A i \in 1..Len(reqs) :
            reqs[i].addr = NetworkAddr =>
                /\ i = Len(ListKeys) + 2
                /\ \A j \in 1..(i - 1) : resp[j] = "ok"

\* C14 amended: local_network_detail fetches the member list, then the network
\* record, then every member detail: each request is issued only after all
\* earlier ones have returned, and after a failed network-record fetch no
\* member detail is requested.
C14_LocalOrder ==
    LocalOp =>
        /\ \A i \in 1..Len(reqs) :
              /\ i = 1 => reqs[i].addr = MemberListAddr
              /\ i = 2 => reqs[i].addr = NetworkAddr
              /\ i >= 3 => IsDetailAddr(reqs[i].addr)
              /\ \A j \in 1..(i - 1) : resp[j] = "ok"
        /\ (Len(reqs) >= 2 /\ resp[2] = "err") =>
              (Len(reqs) = 2 /\ pc = "done" /\ outcome = "throw")

\* the network record has returned and a member detail is being fetched
C14_Witness ==
    /\ LocalOp /\ pc = "local:loop"
    /\ Len(reqs) = 3
    /\ reqs[2].addr = NetworkAddr /\ resp[2] = "ok"
    /\ IsDetailAddr(reqs[3].addr) /\ resp[3] = "pending"

\* the keys a wire record has both at its top level and inside config
Collide(w) == (DOMAIN w["config"]) \cap (DOMAIN RestOf(w))

\* C15 as stated: on a key that occurs at the top level and inside config the
\* flattened record carries config's value, for flattenNetwork (the record
\* network_create returns against Central), for flattenCentralMember (the
\* members of a Central aggregate) and for the network of a Central aggregate,
\* which equals flattenNetwork of the wire record on every key but cidr.
C15_AsStated ==
    /\ (op = "network_create" /\ args.isCentral /\ outcome = "return") =>
          \A k \in Collide(network) : ret[k] = network["config"][k]
    /\ (CentralOp /\ outcome = "return") =>
          /\ \A k \in Collide(network) : ret.network[k] = network["config"][k]
          /\ \A i \in 1..Len(membersArr) :
                \A k \in Collide(membersArr[i].v) :
                    ret.members[i][k] = membersArr[i].v["config"][k]
          /\ (DOMAIN ret.network) \ {"cidr"} = (DOMAIN flattenNetwork(network)) \ {"cidr"}
          /\ \A k \in (DOMAIN ret.network) \ {"cidr"} :
                ret.network[k] = flattenNetwork(network)[k]

\* the base URLs a Central call can resolve
CentralBases ==
    {CENTRAL_ZT_ADDR} \cup ({d.ztCentralApiUrl : d \in DbResults} \ {""})

\* C16 as stated: a request that carries the Central Authorization header goes
\* to the Central base URL, and a request to the Local controller address
\* carries the Local secret-token header, for every operation and backend flag.
C16_AsStated ==
    \A i \in 1..Len(reqs) :
        /\ "Authorization" \in DOMAIN reqs[i].headers => reqs[i].addr[1] \in CentralBases
        /\ reqs[i].addr[1] = LOCAL_ZT_ADDR => "X-ZT1-Auth" \in DOMAIN reqs[i].headers

====